---- MODULE Spec2Model ----
(***************************************************************************)
(* Model of miot_kit/miot/decoder.py: MIoTMediaRingBuffer (two bounded     *)
(* deques guarded by one threading.Condition) and MIoTMediaDecoder (the    *)
(* worker thread that drains the buffer, decodes, rate-gates video and     *)
(* schedules callbacks on the asyncio loop).                               *)
(*                                                                         *)
(* Threads: one producer (push_video_frame / push_audio_frame), the worker *)
(* (Thread.run), one caller of stop(), and the owner of the event loop.    *)
(* Entering a locked section takes two steps (reading self._cond, acquiring *)
(* the lock).  stop() takes no lock, so each of its statements is a step,  *)
(* and inside a locked section every statement that reads or writes what   *)
(* stop() touches (the lanes, the attribute _cond) is a step of its own.   *)
(* The handlers hold no lock: each read of a decoder handle that stop()    *)
(* resets is a step of its own.                                            *)
(***************************************************************************)
EXTENDS Integers, Sequences, FiniteSets, TLC

\* ------------------------------------------------------------------ bounds
Capacity == 1          \* maxlen of the buffer the worker is built with
MaxLen == 3            \* largest maxlen of a buffer whose puts are checked alone
MaxPush == 2           \* number of put_video / put_audio calls
MaxOver == 2           \* puts beyond maxlen made on a buffer that starts empty
MaxClock == 4          \* largest value time.time()*1000 returns
FrameInterval == 2     \* frame_interval given to the constructor
MaxStops == 2          \* number of stop() calls

\* ------------------------------------------------------------------ inputs
FrameTypes == {"I", "P"}
\* the streams a producer feeds: each channel carries one video and one audio codec
Streams == { [ch |-> 0, video |-> "H264", audio |-> "OPUS"],
             [ch |-> 1, video |-> "H265", audio |-> "G711"] }

\* frame_data = None
NoFrame == [ts |-> 0, ft |-> "P", codec |-> "none", ch |-> 0]

VARIABLES
    maxlen,         \* MIoTMediaRingBuffer._maxlen
    videoBuf,       \* MIoTMediaRingBuffer._video_buffer
    audioBuf,       \* MIoTMediaRingBuffer._audio_buffer
    condDeleted,    \* TRUE once `del self._cond` ran
    lock,           \* who holds the lock of _cond: "free", "producer", "worker"
    running,        \* MIoTMediaDecoder._running
    videoDecoder,   \* _video_decoder: "none" or the codec it was created for
    audioDecoder,   \* _audio_decoder: "none" or "OPUS"
    resampler,      \* _resampler is set
    lastJpegTs,     \* _last_jpeg_ts
    clock,          \* the last value read from time.time()
    loopClosed,     \* _main_loop.is_closed()
    scheduled,      \* tasks handed to _main_loop.call_soon_threadsafe, in order
    wpc,            \* position of the worker thread
    wframe,         \* frame_data of the step in progress
    werr,           \* exception propagating out of step()
    ppc,            \* position of the producer thread
    pcall,          \* the put it is in: "none", "put_video", "put_audio"
    pitem,          \* its argument
    perr,           \* exception the last put raised to the producer
    pushed,         \* number of put calls made so far
    puts,           \* number of put calls the producer makes in all
    spc,            \* position of the thread calling stop()
    stopCalls,      \* number of stop() calls made so far
    stopReturned,   \* a stop() call has returned normally
    stopOnStarted,  \* the last stop() call was made after Thread.start()
    handed,         \* history: the records step() passed to on_frame, in order
    videoBound,     \* history: the codec the first video decoder was created for
    handedAtStop,   \* history: Len(handed) when stop() last set _running = False
    pbefore         \* history: the video lane as the put in progress found it

vars == <<maxlen, videoBuf, audioBuf, condDeleted, lock, running, videoDecoder,
          audioDecoder, resampler, lastJpegTs, clock, loopClosed, scheduled,
          wpc, wframe, werr, ppc, pcall, pitem, perr, pushed, puts, spc,
          stopCalls,
          stopReturned, stopOnStarted, handed, videoBound, handedAtStop, pbefore>>

bufVars == <<maxlen, videoBuf, audioBuf>>
decVars == <<videoDecoder, audioDecoder, resampler>>
workerVars == <<wpc, wframe, werr>>
producerVars == <<ppc, pcall, pitem, perr, pushed, puts>>
stopVars == <<spc, stopCalls, stopReturned, stopOnStarted, handedAtStop>>
histVars == <<handed, videoBound, pbefore>>

\* ---------------------------------------------------------- ring buffer
\* for i in range(len(buf)): if buf[i].frame_type != FRAME_I: ... break
RECURSIVE FirstNonKeyFrom(_, _)
FirstNonKeyFrom(buf, i) ==
    IF i > Len(buf) THEN 0
    ELSE IF buf[i].ft # "I" THEN i
    ELSE FirstNonKeyFrom(buf, i + 1)

\* del buf[i]
RemoveAt(buf, i) == [j \in 1..(Len(buf) - 1) |-> IF j < i THEN buf[j] ELSE buf[j + 1]]

\* mutant of DequeAppend: a full deque keeps its items and drops the new one
DequeAppendDropNew(buf, item) ==
    IF Len(buf) >= maxlen THEN buf ELSE Append(buf, item)

\* mutant of DequeAppend: the deque was built without maxlen
DequeAppendUnbounded(buf, item) == Append(buf, item)

\* deque(maxlen=maxlen).append(item): a full deque discards its leftmost item
DequeAppend(buf, item) ==
    IF Len(buf) >= maxlen THEN Append(Tail(buf), item) ELSE Append(buf, item)

\* mutant of FirstNonKey: the scan finds no non-keyframe, so a keyframe evicts
\* the oldest record whatever its type
FirstNonKeyNone(buf) == 0

\* the index the scan of put_video stops at, 0 when it finds no non-keyframe
FirstNonKey(buf) == FirstNonKeyFrom(buf, 1)

\* mutant of PutVideoBranch: a non-keyframe evicts the oldest record of a full lane
PutVideoBranchFifo(buf, item) ==
    IF Len(buf) >= maxlen
    THEN IF item.ft = "I" THEN "scan" ELSE "popleft"
    ELSE "append"

\* mutant of PutVideoBranch: on a full lane a non-keyframe evicts like a keyframe
PutVideoBranchAnyEvicts(buf, item) ==
    IF Len(buf) >= maxlen THEN "scan" ELSE "append"

\* the tests of put_video at lines 84 and 85: where the section goes next
PutVideoBranch(buf, item) ==
    IF Len(buf) >= maxlen
    THEN IF item.ft = "I" THEN "scan" ELSE "drop"
    ELSE "append"

\* ------------------------------------------------------------- rate gate
\* mutant of GateOpen: the comparison is off by one
GateOpenOffByOne(now, last) == now - last >= FrameInterval - 1

\* now_ts - self._last_jpeg_ts >= self._frame_interval
GateOpen(now, last) == now - last >= FrameInterval

\* the task call_soon_threadsafe hands to the loop
Task(kind, frame, now) == [kind |-> kind, ts |-> frame.ts, ch |-> frame.ch, at |-> now]

\* ------------------------------------------------------------------ init
\* MIoTMediaDecoder.__init__ but for the buffer; no thread has run yet
InitDecoder ==
    /\ condDeleted = FALSE
    /\ lock = "free"
    /\ running = FALSE
    /\ videoDecoder = "none"
    /\ audioDecoder = "none"
    /\ resampler = FALSE
    /\ lastJpegTs = 0
    /\ clock = 0
    /\ loopClosed = FALSE
    /\ scheduled = <<>>
    /\ wpc = "created"
    /\ wframe = NoFrame
    /\ werr = "none"
    /\ ppc = "idle"
    /\ pcall = "none"
    /\ pitem = NoFrame
    /\ perr = "none"
    /\ pushed = 0
    /\ spc = "idle"
    /\ stopCalls = 0
    /\ stopReturned = FALSE
    /\ stopOnStarted = FALSE
    /\ handed = <<>>
    /\ videoBound = "none"
    /\ handedAtStop = 0
    /\ pbefore = <<>>

Init ==
    /\ maxlen = Capacity
    /\ videoBuf = <<>>
    /\ audioBuf = <<>>
    /\ puts = MaxPush
    /\ InitDecoder

\* The lanes a buffer of maxlen n can hold after earlier puts and before the
\* thread is started: up to n records in the order put, the record at place i
\* stamped i - MaxLen - 1 (earlier than every put of the model).
VideoLanes(n) ==
    UNION { { [i \in 1..k |-> [ts |-> i - MaxLen - 1, ft |-> f[i],
                               codec |-> "H264", ch |-> 0]] :
              f \in [1..k -> FrameTypes] } : k \in 0..n }

AudioLanes(n) ==
    { [i \in 1..k |-> [ts |-> i - MaxLen - 1, ft |-> "P",
                       codec |-> "OPUS", ch |-> 0]] : k \in 0..n }

\* a buffer of any maxlen up to MaxLen holding any such lanes
PutInit ==
    /\ maxlen \in 1..MaxLen
    /\ videoBuf \in VideoLanes(maxlen)
    /\ audioBuf \in AudioLanes(maxlen)
    /\ puts = MaxPush
    /\ InitDecoder

\* MIoTMediaRingBuffer(maxlen) as built, both lanes empty, for any maxlen up to
\* MaxLen; the producer makes MaxOver puts more than a lane holds
EmptyInit ==
    /\ maxlen \in 1..MaxLen
    /\ videoBuf = <<>>
    /\ audioBuf = <<>>
    /\ puts = maxlen + MaxOver
    /\ InitDecoder

\* -------------------------------------------------------------- producer
\* push_video_frame -> put_video: `with self._cond` first reads the attribute
PutVideoCall ==
    /\ ppc \in {"idle", "raised"}
    /\ pushed < puts
    /\ \E ft \in FrameTypes, s \in Streams :
          pitem' = [ts |-> pushed + 1, ft |-> ft, codec |-> s.video, ch |-> s.ch]
    /\ pcall' = "put_video"
    /\ pushed' = pushed + 1
    /\ ppc' = IF condDeleted THEN "raised" ELSE "acquire"
    /\ perr' = IF condDeleted THEN "AttributeError: _cond" ELSE "none"
    /\ UNCHANGED <<histVars, bufVars, condDeleted, lock, running, decVars, lastJpegTs, clock,
                   loopClosed, scheduled, workerVars, puts, stopVars>>

PutAudioCall ==
    /\ ppc \in {"idle", "raised"}
    /\ pushed < puts
    /\ \E s \in Streams :
          pitem' = [ts |-> pushed + 1, ft |-> "P", codec |-> s.audio, ch |-> s.ch]
    /\ pcall' = "put_audio"
    /\ pushed' = pushed + 1
    /\ ppc' = IF condDeleted THEN "raised" ELSE "acquire"
    /\ perr' = IF condDeleted THEN "AttributeError: _cond" ELSE "none"
    /\ UNCHANGED <<histVars, bufVars, condDeleted, lock, running, decVars, lastJpegTs, clock,
                   loopClosed, scheduled, workerVars, puts, stopVars>>

\* Condition.__enter__
PutAcquire ==
    /\ ppc = "acquire"
    /\ lock = "free"
    /\ lock' = "producer"
    /\ ppc' = "locked"
    /\ UNCHANGED <<histVars, bufVars, condDeleted, running, decVars, lastJpegTs, clock,
                   loopClosed, scheduled, workerVars, pcall, pitem, perr, pushed, puts, stopVars>>

\* the with block is left normally: Condition.__exit__ releases the lock (the
\* with statement keeps the condition it entered) and the put returns
PutReturn ==
    /\ lock' = "free"
    /\ ppc' = "idle"
    /\ pcall' = "none"
    /\ pitem' = NoFrame
    /\ perr' = "none"
    /\ pbefore' = <<>>

\* an exception leaves the with block: Condition.__exit__ releases the lock and
\* the exception reaches the producer
PutRaise(err) ==
    /\ lock' = "free"
    /\ ppc' = "raised"
    /\ perr' = err
    /\ pbefore' = <<>>
    /\ UNCHANGED <<pcall, pitem>>

\* put_video, lines 84-85: the length test and the frame type test; a
\* non-keyframe on a full lane is dropped (lines 96-99) and the put returns
PutVideoTest ==
    /\ ppc = "locked"
    /\ pcall = "put_video"
    /\ LET next == PutVideoBranch(videoBuf, pitem)
       IN  IF next = "drop"
           THEN PutReturn
           ELSE /\ ppc' = next
                /\ pbefore' = IF next = "append" THEN <<>> ELSE videoBuf
                /\ UNCHANGED <<lock, pcall, pitem, perr>>
    /\ UNCHANGED <<handed, videoBound, bufVars, condDeleted, running, decVars, lastJpegTs,
                   clock, loopClosed, scheduled, workerVars, pushed, puts, stopVars>>

\* put_video, lines 86-91: the scan deletes the first non-keyframe.  Only
\* clear() of stop() can change the lane during the scan, and whenever it runs
\* before the deletion the put ends in IndexError with an empty lane (buf[i],
\* del buf[i] or, with range(0), popleft() raises): the scan is one step, and
\* on a lane found empty it goes on to popleft()
PutVideoScan ==
    /\ ppc = "scan"
    /\ LET i == FirstNonKey(videoBuf)
       IN  IF i # 0
           THEN videoBuf' = RemoveAt(videoBuf, i) /\ ppc' = "append"
           ELSE videoBuf' = videoBuf /\ ppc' = "popleft"
    /\ UNCHANGED <<histVars, maxlen, audioBuf, condDeleted, lock, running, decVars, lastJpegTs,
                   clock, loopClosed, scheduled, workerVars, pcall, pitem, perr, pushed, puts,
                   stopVars>>

\* put_video, lines 92-93: popleft(), IndexError on an empty deque
PutVideoPopleft ==
    /\ ppc = "popleft"
    /\ IF videoBuf = <<>>
       THEN PutRaise("IndexError") /\ videoBuf' = videoBuf
       ELSE /\ videoBuf' = Tail(videoBuf)
            /\ ppc' = "append"
            /\ UNCHANGED <<lock, pcall, pitem, perr, pbefore>>
    /\ UNCHANGED <<handed, videoBound, maxlen, audioBuf, condDeleted, running, decVars,
                   lastJpegTs, clock, loopClosed, scheduled, workerVars, pushed, puts, stopVars>>

\* put_video, line 94 or line 101: self._video_buffer.append(item)
PutVideoAppend ==
    /\ ppc = "append"
    /\ pcall = "put_video"
    /\ videoBuf' = DequeAppend(videoBuf, pitem)
    /\ ppc' = "notify"
    /\ UNCHANGED <<histVars, maxlen, audioBuf, condDeleted, lock, running, decVars, lastJpegTs,
                   clock, loopClosed, scheduled, workerVars, pcall, pitem, perr, pushed, puts,
                   stopVars>>

\* put_video, line 95 or line 102: self._cond.notify() reads the attribute
\* again, AttributeError once it is deleted; else the put returns
PutVideoNotify ==
    /\ ppc = "notify"
    /\ pcall = "put_video"
    /\ IF condDeleted THEN PutRaise("AttributeError: _cond") ELSE PutReturn
    /\ UNCHANGED <<handed, videoBound, bufVars, condDeleted, running, decVars, lastJpegTs,
                   clock, loopClosed, scheduled, workerVars, pushed, puts, stopVars>>

\* put_audio, line 106: self._audio_buffer.append(item)
PutAudioAppend ==
    /\ ppc = "locked"
    /\ pcall = "put_audio"
    /\ audioBuf' = DequeAppend(audioBuf, pitem)
    /\ ppc' = "notify"
    /\ UNCHANGED <<histVars, maxlen, videoBuf, condDeleted, lock, running, decVars, lastJpegTs,
                   clock, loopClosed, scheduled, workerVars, pcall, pitem, perr, pushed, puts,
                   stopVars>>

\* put_audio, line 107: self._cond.notify() reads the attribute again
PutAudioNotify ==
    /\ ppc = "notify"
    /\ pcall = "put_audio"
    /\ IF condDeleted THEN PutRaise("AttributeError: _cond") ELSE PutReturn
    /\ UNCHANGED <<handed, videoBound, bufVars, condDeleted, running, decVars, lastJpegTs,
                   clock, loopClosed, scheduled, workerVars, pushed, puts, stopVars>>

\* ---------------------------------------------------------------- worker
\* an exception leaves step() and reaches the handler of run()
Raise(err) ==
    /\ wpc' = "except"
    /\ werr' = err
    /\ wframe' = NoFrame

\* step() returns to the loop of run()
Return ==
    /\ wpc' = "loop"
    /\ werr' = werr
    /\ wframe' = NoFrame

\* Thread.start()
Start ==
    /\ wpc = "created"
    /\ wpc' = "run"
    /\ UNCHANGED <<histVars, bufVars, condDeleted, lock, running, decVars, lastJpegTs, clock,
                   loopClosed, scheduled, wframe, werr, producerVars, stopVars>>

\* self._running = True
RunEnter ==
    /\ wpc = "run"
    /\ running' = TRUE
    /\ wpc' = "loop"
    /\ UNCHANGED <<histVars, bufVars, condDeleted, lock, decVars, lastJpegTs, clock,
                   loopClosed, scheduled, wframe, werr, producerVars, stopVars>>

\* while self._running
LoopTest ==
    /\ wpc = "loop"
    /\ wpc' = IF running THEN "step" ELSE "exited"
    /\ UNCHANGED <<histVars, bufVars, condDeleted, lock, running, decVars, lastJpegTs, clock,
                   loopClosed, scheduled, wframe, werr, producerVars, stopVars>>

\* step(): `with self._cond` reads the attribute; AttributeError once it is deleted
StepLoad ==
    /\ wpc = "step"
    /\ IF condDeleted
       THEN Raise("AttributeError: _cond")
       ELSE wpc' = "acquire" /\ UNCHANGED <<werr, wframe>>
    /\ UNCHANGED <<histVars, bufVars, condDeleted, lock, running, decVars, lastJpegTs, clock,
                   loopClosed, scheduled, producerVars, stopVars>>

\* Condition.__enter__
StepAcquire ==
    /\ wpc = "acquire"
    /\ lock = "free"
    /\ lock' = "worker"
    /\ wpc' = "locked"
    /\ UNCHANGED <<histVars, bufVars, condDeleted, running, decVars, lastJpegTs, clock,
                   loopClosed, scheduled, wframe, werr, producerVars, stopVars>>

\* on_frame(frame_data): the record as the history keeps it
Handed(kind, frame) == [kind |-> kind, ts |-> frame.ts]

\* mutant of StepTest: the audio lane is looked at first
StepTestAudioFirst ==
    /\ wpc = "locked"
    /\ wpc' = IF audioBuf # <<>> THEN "pop_audio"
              ELSE IF videoBuf # <<>> THEN "pop_video"
              ELSE "wait"
    /\ UNCHANGED <<histVars, bufVars, condDeleted, lock, running, decVars, lastJpegTs, clock,
                   loopClosed, scheduled, wframe, werr, producerVars, stopVars>>

\* step(), lines 119 and 121: `if self._video_buffer` ... `elif
\* self._audio_buffer`.  No thread can add a record while the worker holds the
\* lock, so the second test finds the video lane as the first did and the two
\* tests are one step
StepTest ==
    /\ wpc = "locked"
    /\ wpc' = IF videoBuf # <<>> THEN "pop_video"
              ELSE IF audioBuf # <<>> THEN "pop_audio"
              ELSE "wait"
    /\ UNCHANGED <<histVars, bufVars, condDeleted, lock, running, decVars, lastJpegTs, clock,
                   loopClosed, scheduled, wframe, werr, producerVars, stopVars>>

\* mutant of StepPopVideo: pop() instead of popleft(), the newest record is taken
StepPopVideoNewest ==
    /\ wpc = "pop_video"
    /\ IF videoBuf = <<>>
       THEN Raise("IndexError") /\ lock' = "free" /\ videoBuf' = videoBuf
       ELSE /\ wframe' = videoBuf[Len(videoBuf)]
            /\ videoBuf' = SubSeq(videoBuf, 1, Len(videoBuf) - 1)
            /\ wpc' = "release_video"
            /\ UNCHANGED <<werr, lock>>
    /\ UNCHANGED <<histVars, maxlen, audioBuf, condDeleted, running, decVars,
                   lastJpegTs, clock, loopClosed, scheduled, producerVars, stopVars>>

\* step(), line 120: frame_data = self._video_buffer.popleft(), under the lock;
\* IndexError on a deque stop() has emptied since the test (the exception
\* leaves the with block, which releases the lock)
StepPopVideo ==
    /\ wpc = "pop_video"
    /\ IF videoBuf = <<>>
       THEN Raise("IndexError") /\ lock' = "free" /\ videoBuf' = videoBuf
       ELSE /\ wframe' = Head(videoBuf)
            /\ videoBuf' = Tail(videoBuf)
            /\ wpc' = "release_video"
            /\ UNCHANGED <<werr, lock>>
    /\ UNCHANGED <<histVars, maxlen, audioBuf, condDeleted, running, decVars,
                   lastJpegTs, clock, loopClosed, scheduled, producerVars, stopVars>>

\* step(), lines 122-123: frame_data = self._audio_buffer.popleft(), under the
\* lock (IndexError on a deque stop() has emptied since the test), and
\* on_frame = on_audio_frame
StepPopAudio ==
    /\ wpc = "pop_audio"
    /\ IF audioBuf = <<>>
       THEN Raise("IndexError") /\ lock' = "free" /\ audioBuf' = audioBuf
       ELSE /\ wframe' = Head(audioBuf)
            /\ audioBuf' = Tail(audioBuf)
            /\ wpc' = "release_audio"
            /\ UNCHANGED <<werr, lock>>
    /\ UNCHANGED <<histVars, maxlen, videoBuf, condDeleted, running, decVars,
                   lastJpegTs, clock, loopClosed, scheduled, producerVars, stopVars>>

\* mutant of StepRelease: on_frame is called inside the with block, the lock is
\* kept while the record is handled
StepReleaseKeepsLock ==
    /\ wpc \in {"release_video", "release_audio"}
    /\ lock' = lock
    /\ wpc' = IF wpc = "release_video" THEN "call_video" ELSE "call_audio"
    /\ UNCHANGED <<histVars, bufVars, condDeleted, running, decVars, lastJpegTs, clock,
                   loopClosed, scheduled, wframe, werr, producerVars, stopVars>>

\* step(): the with block of lines 118-125 is left with a record in
\* frame_data, Condition.__exit__ releases the lock
StepRelease ==
    /\ wpc \in {"release_video", "release_audio"}
    /\ lock' = "free"
    /\ wpc' = IF wpc = "release_video" THEN "call_video" ELSE "call_audio"
    /\ UNCHANGED <<histVars, bufVars, condDeleted, running, decVars, lastJpegTs, clock,
                   loopClosed, scheduled, wframe, werr, producerVars, stopVars>>

\* step(), lines 127-128: `if frame_data: on_frame(frame_data)`, the handler
\* chosen for the lane is entered with the record
StepCall ==
    /\ wpc \in {"call_video", "call_audio"}
    /\ handed' = Append(handed, Handed(IF wpc = "call_video" THEN "video" ELSE "audio",
                                       wframe))
    /\ wpc' = IF wpc = "call_video" THEN "on_video" ELSE "on_audio"
    /\ UNCHANGED <<videoBound, pbefore, bufVars, condDeleted, lock, running, decVars,
                   lastJpegTs, clock, loopClosed, scheduled, wframe, werr, producerVars,
                   stopVars>>

\* step(), line 125: self._cond.wait(timeout=timeout) reads the attribute
\* again (AttributeError once it is deleted, the with block is left); else
\* wait() releases the lock and blocks
StepWait ==
    /\ wpc = "wait"
    /\ IF condDeleted
       THEN Raise("AttributeError: _cond")
       ELSE wpc' = "waiting" /\ UNCHANGED <<werr, wframe>>
    /\ lock' = "free"
    /\ UNCHANGED <<histVars, bufVars, condDeleted, running, decVars, lastJpegTs, clock,
                   loopClosed, scheduled, producerVars, stopVars>>

\* self._cond.wait(timeout) returns (notified or timed out): it takes the lock
\* again, the with block releases it, frame_data is None and step() returns
StepWake ==
    /\ wpc = "waiting"
    /\ lock = "free"
    /\ Return
    /\ UNCHANGED <<histVars, bufVars, condDeleted, lock, running, decVars, lastJpegTs, clock,
                   loopClosed, scheduled, producerVars, stopVars>>

\* if not self._video_decoder: create one for the record's codec
BindVideo(decoder, frame) == IF decoder = "none" THEN frame.codec ELSE decoder

\* _on_video_callback, lines 280-295: `if not self._video_decoder` reads the
\* handle; when there is none a decoder for the record's codec is created
\* (VideoCodecContext.create can raise) and stored
OnVideoBind ==
    /\ wpc = "on_video"
    /\ \E created \in BOOLEAN :
          IF videoDecoder = "none" /\ ~created
          THEN /\ Raise("DecoderError")
               /\ UNCHANGED <<videoDecoder, videoBound>>
          ELSE /\ videoDecoder' = BindVideo(videoDecoder, wframe)
               /\ videoBound' = IF videoBound = "none" THEN videoDecoder' ELSE videoBound
               /\ wpc' = "video_decode"
               /\ UNCHANGED <<wframe, werr>>
    /\ UNCHANGED <<handed, pbefore, bufVars, condDeleted, lock, running, audioDecoder,
                   resampler, lastJpegTs, clock, loopClosed, scheduled, producerVars,
                   stopVars>>

\* _on_video_callback, lines 297-317: self._video_decoder.decode(pkt) reads the
\* handle again (AttributeError when stop() has set it to None), then the
\* clock is read, the rate gate applied and the frame converted to JPEG
OnVideoDecode ==
    /\ wpc = "video_decode"
    /\ \E decoded \in {"raise", "empty", "frames"}, converted \in BOOLEAN,
          now \in clock..MaxClock :
          IF videoDecoder = "none"
          THEN /\ Raise("AttributeError: decode")
               /\ UNCHANGED <<clock, lastJpegTs>>
          ELSE IF decoded = "raise"
          THEN /\ Raise("DecodeError")
               /\ UNCHANGED <<clock, lastJpegTs>>
          ELSE /\ clock' = now
               /\ IF ~GateOpen(now, lastJpegTs)
                  THEN Return /\ lastJpegTs' = lastJpegTs
                  ELSE IF decoded = "empty"
                  THEN Return /\ lastJpegTs' = now
                  ELSE IF ~converted
                  THEN Return /\ lastJpegTs' = lastJpegTs
                  ELSE /\ wpc' = "video_dispatch"
                       /\ UNCHANGED <<lastJpegTs, wframe, werr>>
    /\ UNCHANGED <<histVars, bufVars, condDeleted, lock, running, decVars,
                   loopClosed, scheduled, producerVars, stopVars>>

\* call_soon_threadsafe(create_task, self._video_callback(...)), then
\* self._last_jpeg_ts = now_ts (now_ts is the clock value OnVideoDecode read);
\* RuntimeError of a closed loop is caught and logged
VideoDispatch ==
    /\ wpc = "video_dispatch"
    /\ IF loopClosed
       THEN UNCHANGED <<scheduled, lastJpegTs>>
       ELSE /\ scheduled' = Append(scheduled, Task("video", wframe, clock))
            /\ lastJpegTs' = clock
    /\ Return
    /\ UNCHANGED <<histVars, bufVars, condDeleted, lock, running, decVars, clock,
                   loopClosed, producerVars, stopVars>>

\* if not self._audio_decoder: create one when the record's codec is OPUS
BindAudio(decoder, frame) ==
    IF decoder = "none" /\ frame.codec = "OPUS" THEN "OPUS" ELSE decoder

\* _on_audio_callback, lines 329-334: `if not self._audio_decoder` reads the
\* handle; when there is none a decoder is created for OPUS only
\* (AudioCodecContext.create can raise) and the resampler is set
OnAudioBind ==
    /\ wpc = "on_audio"
    /\ \E created \in BOOLEAN :
          IF audioDecoder = "none" /\ wframe.codec = "OPUS" /\ ~created
          THEN /\ Raise("DecoderError")
               /\ UNCHANGED <<audioDecoder, resampler>>
          ELSE /\ audioDecoder' = BindAudio(audioDecoder, wframe)
               /\ resampler' = (resampler \/ audioDecoder = "none")
               /\ wpc' = "audio_decode"
               /\ UNCHANGED <<wframe, werr>>
    /\ UNCHANGED <<histVars, bufVars, condDeleted, lock, running, videoDecoder, lastJpegTs,
                   clock, loopClosed, scheduled, producerVars, stopVars>>

\* _on_audio_callback, lines 335-341: self._audio_decoder.decode(pkt) reads the
\* handle again (AttributeError when it is None: no decoder for the codec, or
\* stop() has reset it), then the frames are resampled
OnAudioDecode ==
    /\ wpc = "audio_decode"
    /\ \E decoded \in BOOLEAN, resampled \in BOOLEAN :
          IF audioDecoder = "none" THEN Raise("AttributeError: decode")
          ELSE IF ~decoded THEN Raise("DecodeError")
          ELSE IF ~resampled THEN Raise("ResampleError")
          ELSE wpc' = "audio_dispatch" /\ UNCHANGED <<wframe, werr>>
    /\ UNCHANGED <<histVars, bufVars, condDeleted, lock, running, decVars, lastJpegTs,
                   clock, loopClosed, scheduled, producerVars, stopVars>>

\* mutant of AudioDispatch: audio is forwarded only when the video rate gate is open
AudioDispatchGated ==
    /\ wpc = "audio_dispatch"
    /\ IF loopClosed
       THEN Raise("RuntimeError") /\ scheduled' = scheduled
       ELSE IF ~GateOpen(clock, lastJpegTs)
       THEN Return /\ scheduled' = scheduled
       ELSE /\ scheduled' = Append(scheduled, Task("audio", wframe, clock))
            /\ Return
    /\ UNCHANGED <<histVars, bufVars, condDeleted, lock, running, decVars, lastJpegTs, clock,
                   loopClosed, producerVars, stopVars>>

\* mutant of AudioDispatch: the task is put in front of the tasks scheduled before
AudioDispatchFirst ==
    /\ wpc = "audio_dispatch"
    /\ IF loopClosed
       THEN Raise("RuntimeError") /\ scheduled' = scheduled
       ELSE /\ scheduled' = <<Task("audio", wframe, clock)>> \o scheduled
            /\ Return
    /\ UNCHANGED <<histVars, bufVars, condDeleted, lock, running, decVars, lastJpegTs, clock,
                   loopClosed, producerVars, stopVars>>

\* call_soon_threadsafe(create_task, self._audio_callback(...)): RuntimeError of
\* a closed loop leaves the handler
AudioDispatch ==
    /\ wpc = "audio_dispatch"
    /\ IF loopClosed
       THEN Raise("RuntimeError") /\ scheduled' = scheduled
       ELSE /\ scheduled' = Append(scheduled, Task("audio", wframe, clock))
            /\ Return
    /\ UNCHANGED <<histVars, bufVars, condDeleted, lock, running, decVars, lastJpegTs, clock,
                   loopClosed, producerVars, stopVars>>

\* mutant of Except: the loop is left on every exception
ExceptBreak ==
    /\ wpc = "except"
    /\ wpc' = "exited"
    /\ werr' = "none"
    /\ UNCHANGED <<histVars, bufVars, condDeleted, lock, running, decVars, lastJpegTs, clock,
                   loopClosed, scheduled, wframe, producerVars, stopVars>>

\* except Exception: log; if self._main_loop.is_closed(): break
Except ==
    /\ wpc = "except"
    /\ wpc' = IF loopClosed THEN "exited" ELSE "loop"
    /\ werr' = "none"
    /\ UNCHANGED <<histVars, bufVars, condDeleted, lock, running, decVars, lastJpegTs, clock,
                   loopClosed, scheduled, wframe, producerVars, stopVars>>

\* ------------------------------------------------------------------ stop
\* stop(): self._running = False
StopCall ==
    /\ spc \in {"idle", "returned", "raised"}
    /\ stopCalls < MaxStops
    /\ stopCalls' = stopCalls + 1
    /\ running' = FALSE
    /\ spc' = "del_cond"
    /\ stopOnStarted' = (wpc # "created")
    /\ handedAtStop' = Len(handed)
    /\ UNCHANGED <<histVars, bufVars, condDeleted, lock, decVars, lastJpegTs, clock,
                   loopClosed, scheduled, workerVars, producerVars, stopReturned>>

\* self._queue.stop(): del self._cond (AttributeError when it is already deleted)
StopDelCond ==
    /\ spc = "del_cond"
    /\ IF condDeleted
       THEN spc' = "raised" /\ condDeleted' = condDeleted
       ELSE spc' = "clear_video" /\ condDeleted' = TRUE
    /\ UNCHANGED <<histVars, bufVars, lock, running, decVars, lastJpegTs, clock,
                   loopClosed, scheduled, workerVars, producerVars, stopCalls,
                   stopReturned, stopOnStarted, handedAtStop>>

\* self._video_buffer.clear()
StopClearVideo ==
    /\ spc = "clear_video"
    /\ videoBuf' = <<>>
    /\ spc' = "clear_audio"
    /\ UNCHANGED <<histVars, maxlen, audioBuf, condDeleted, lock, running, decVars, lastJpegTs, clock,
                   loopClosed, scheduled, workerVars, producerVars, stopCalls,
                   stopReturned, stopOnStarted, handedAtStop>>

\* self._audio_buffer.clear()
StopClearAudio ==
    /\ spc = "clear_audio"
    /\ audioBuf' = <<>>
    /\ spc' = "decoders"
    /\ UNCHANGED <<histVars, maxlen, videoBuf, condDeleted, lock, running, decVars, lastJpegTs, clock,
                   loopClosed, scheduled, workerVars, producerVars, stopCalls,
                   stopReturned, stopOnStarted, handedAtStop>>

\* self._video_decoder = None
StopVideoDecoder ==
    /\ spc = "decoders"
    /\ videoDecoder' = "none"
    /\ spc' = "audio_decoder"
    /\ UNCHANGED <<histVars, bufVars, condDeleted, lock, running, audioDecoder, resampler,
                   lastJpegTs, clock, loopClosed, scheduled, workerVars, producerVars,
                   stopCalls, stopReturned, stopOnStarted, handedAtStop>>

\* self._audio_decoder = None
StopAudioDecoder ==
    /\ spc = "audio_decoder"
    /\ audioDecoder' = "none"
    /\ spc' = "join"
    /\ UNCHANGED <<histVars, bufVars, condDeleted, lock, running, videoDecoder, resampler,
                   lastJpegTs, clock, loopClosed, scheduled, workerVars, producerVars,
                   stopCalls, stopReturned, stopOnStarted, handedAtStop>>

\* mutant of StopJoin: stop() returns without waiting for the worker
StopJoinNoWait ==
    /\ spc = "join"
    /\ \/ wpc = "created" /\ spc' = "raised" /\ stopReturned' = stopReturned
       \/ wpc # "created" /\ spc' = "returned" /\ stopReturned' = TRUE
    /\ UNCHANGED <<histVars, bufVars, condDeleted, lock, running, decVars, lastJpegTs, clock,
                   loopClosed, scheduled, workerVars, producerVars, stopCalls,
                   stopOnStarted, handedAtStop>>

\* self.join(): RuntimeError for a thread never started, else wait for its end
StopJoin ==
    /\ spc = "join"
    /\ \/ wpc = "created" /\ spc' = "raised" /\ stopReturned' = stopReturned
       \/ wpc = "exited" /\ spc' = "returned" /\ stopReturned' = TRUE
    /\ UNCHANGED <<histVars, bufVars, condDeleted, lock, running, decVars, lastJpegTs, clock,
                   loopClosed, scheduled, workerVars, producerVars, stopCalls,
                   stopOnStarted, handedAtStop>>

\* ------------------------------------------------------------ event loop
\* the owner of the asyncio loop closes it
CloseLoop ==
    /\ ~loopClosed
    /\ loopClosed' = TRUE
    /\ UNCHANGED <<histVars, bufVars, condDeleted, lock, running, decVars, lastJpegTs, clock,
                   scheduled, workerVars, producerVars, stopVars>>

\* ------------------------------------------------------------------ spec
ProducerNext ==
    \/ PutVideoCall \/ PutAudioCall \/ PutAcquire
    \/ PutVideoTest \/ PutVideoScan \/ PutVideoPopleft \/ PutVideoAppend \/ PutVideoNotify
    \/ PutAudioAppend \/ PutAudioNotify

WorkerNext ==
    \/ Start \/ RunEnter \/ LoopTest \/ StepLoad \/ StepAcquire \/ StepTest
    \/ StepPopVideo \/ StepPopAudio \/ StepRelease \/ StepCall \/ StepWait \/ StepWake
    \/ OnVideoBind \/ OnVideoDecode \/ VideoDispatch
    \/ OnAudioBind \/ OnAudioDecode \/ AudioDispatch \/ Except

StopNext ==
    \/ StopCall \/ StopDelCond \/ StopClearVideo \/ StopClearAudio
    \/ StopVideoDecoder \/ StopAudioDecoder \/ StopJoin

Next == ProducerNext \/ WorkerNext \/ StopNext \/ CloseLoop

Spec == Init /\ [][Next]_vars

\* A started thread keeps being scheduled: the worker takes its next step, the
\* caller of stop() goes on through stop(), and a producer inside a put
\* finishes it.  Whether start(), stop(), a put or the closing of the loop is
\* called at all is left open.
WorkerRun ==
    \/ RunEnter \/ LoopTest \/ StepLoad \/ StepAcquire \/ StepTest
    \/ StepPopVideo \/ StepPopAudio \/ StepRelease \/ StepCall \/ StepWait \/ StepWake
    \/ OnVideoBind \/ OnVideoDecode \/ VideoDispatch
    \/ OnAudioBind \/ OnAudioDecode \/ AudioDispatch \/ Except

StopRun ==
    \/ StopDelCond \/ StopClearVideo \/ StopClearAudio
    \/ StopVideoDecoder \/ StopAudioDecoder \/ StopJoin

ProducerRun ==
    \/ PutAcquire
    \/ PutVideoTest \/ PutVideoScan \/ PutVideoPopleft \/ PutVideoAppend \/ PutVideoNotify
    \/ PutAudioAppend \/ PutAudioNotify

FairSpec ==
    Spec /\ WF_vars(WorkerRun) /\ WF_vars(StopRun) /\ WF_vars(ProducerRun)

\* put_video and put_audio alone, called on a buffer in any state earlier puts
\* can leave it in
PutSpec == PutInit /\ [][ProducerNext]_vars

\* put_video and put_audio alone, called on a buffer that starts empty until
\* its lanes have overflowed
OverflowSpec == EmptyInit /\ [][ProducerNext]_vars

\* on_frame(frame_data) with a callback that takes the record and returns
OnFrameReturns ==
    /\ wpc \in {"on_video", "on_audio"}
    /\ Return
    /\ UNCHANGED <<histVars, bufVars, condDeleted, lock, running, decVars, lastJpegTs,
                   clock, loopClosed, scheduled, producerVars, stopVars>>

\* a thread that calls step() in a loop, as run() does
StepLoop ==
    \/ Start \/ RunEnter \/ LoopTest \/ StepLoad \/ StepAcquire \/ StepTest
    \/ StepPopVideo \/ StepPopAudio \/ StepRelease \/ StepCall \/ StepWait \/ StepWake
    \/ OnFrameReturns

\* put_video, put_audio and step() alone, on a buffer in any state earlier puts
\* can leave it in
DrainSpec == PutInit /\ [][ProducerNext \/ StepLoop]_vars

\* ---------------------------------------------------------------- claims
\* the records of a lane
Records(buf) == {buf[i] : i \in DOMAIN buf}

\* put_video makes its tests (lines 84-85) in this step
PutVideoTestStep == ppc = "locked" /\ pcall = "put_video" /\ ppc' # ppc

\* put_audio appends its record (line 106) in this step
PutAudioStep == ppc = "locked" /\ pcall = "put_audio" /\ ppc' # ppc

\* step() tests the lanes (lines 119, 121) in this step
StepTestStep == wpc = "locked" /\ wpc' # wpc

\* step() runs popleft() on the video lane (line 120) in this step
StepPopVideoStep == wpc = "pop_video" /\ wpc' # wpc

\* C1: in every reachable state, whatever the interleaving of put_video,
\* put_audio, step and stop, each lane holds at most maxlen records.
C1_LanesBounded ==
    /\ Len(videoBuf) <= maxlen
    /\ Len(audioBuf) <= maxlen

\* more video records than the lane holds were put while nothing was taken or cleared
C1_Witness ==
    /\ wpc = "created" /\ spc = "idle" /\ ppc = "idle"
    /\ audioBuf = <<>>
    /\ pushed > maxlen
    /\ Len(videoBuf) = maxlen

\* a put_video of a keyframe that found the lane full (pbefore is the lane it
\* found) has stored its record and is about to return
KeyframeStored ==
    /\ ppc = "notify" /\ pcall = "put_video"
    /\ pitem.ft = "I" /\ pbefore # <<>> /\ Len(pbefore) >= maxlen

\* C2: put_video of a keyframe on a full video lane leaves the lane at length
\* maxlen with the keyframe at the tail; when the lane holds a non-keyframe,
\* the one record removed is the first non-keyframe (every record before it is
\* a keyframe and all other records keep their places in order); only when all
\* records are keyframes is the oldest record removed.
C2_KeyframeEviction ==
    KeyframeStored =>
        /\ Len(videoBuf) = maxlen
        /\ videoBuf[maxlen] = pitem
        /\ IF \E i \in 1..Len(pbefore) : pbefore[i].ft # "I"
           THEN \E i \in 1..Len(pbefore) :
                   /\ pbefore[i].ft # "I"
                   /\ \A j \in 1..(i - 1) :
                         pbefore[j].ft = "I" /\ videoBuf[j] = pbefore[j]
                   /\ \A j \in i..(maxlen - 1) : videoBuf[j] = pbefore[j + 1]
           ELSE \A j \in 1..(maxlen - 1) : videoBuf[j] = pbefore[j + 1]

\* a full lane of a keyframe and two non-keyframes took a keyframe: the first
\* non-keyframe (the second record) is gone, the keyframe before it and the
\* non-keyframe after it stayed
C2_Witness ==
    /\ maxlen = 3 /\ Len(videoBuf) = 3 /\ ppc = "idle"
    /\ videoBuf[1].ts = 1 - MaxLen - 1 /\ videoBuf[1].ft = "I"
    /\ videoBuf[2].ts = 3 - MaxLen - 1 /\ videoBuf[2].ft = "P"
    /\ videoBuf[3].ts = 1 /\ videoBuf[3].ft = "I"

\* C3: put_video of a non-keyframe on a full video lane returns from its test
\* of the lane: it changes neither lane and the new record is stored in neither.
C3_FullLaneDropsNonKeyframe ==
    [][ (PutVideoTestStep /\ pitem.ft # "I" /\ Len(videoBuf) >= maxlen) =>
          /\ ppc' = "idle"
          /\ videoBuf' = videoBuf
          /\ audioBuf' = audioBuf
          /\ pitem \notin Records(videoBuf') \cup Records(audioBuf')
      ]_vars

\* the first put has returned on a full video lane and its record is in no
\* lane (a put_audio always stores its record, and so does a keyframe)
C3_Witness ==
    /\ ppc = "idle" /\ pushed = 1
    /\ Len(videoBuf) = maxlen /\ maxlen > 1
    /\ \A r \in Records(videoBuf) \cup Records(audioBuf) : r.ts < 1

\* C4: when step() tests the lanes and finds both non-empty it goes on to
\* popleft() of the video lane; the record that popleft() removes is the front
\* of the video lane, that record and no other is then handed to the video
\* handler, and no step of the worker on this path changes the audio lane.
C4_VideoBeforeAudio ==
    [][ /\ (StepTestStep /\ videoBuf # <<>> /\ audioBuf # <<>>) => wpc' = "pop_video"
        /\ StepPopVideoStep =>
              /\ audioBuf' = audioBuf
              /\ wpc' \in {"release_video", "except"}
              /\ wpc' = "release_video" =>
                    (wframe' = Head(videoBuf) /\ videoBuf' = Tail(videoBuf))
              /\ wpc' = "except" => (wframe' = NoFrame /\ videoBuf' = videoBuf)
        /\ (wpc \in {"release_video", "call_video"} /\ wpc' # wpc) =>
              /\ audioBuf' = audioBuf /\ videoBuf' = videoBuf /\ wframe' = wframe
              /\ wpc' = IF wpc = "release_video" THEN "call_video" ELSE "on_video"
              /\ handed' = IF wpc = "call_video"
                           THEN Append(handed, Handed("video", wframe))
                           ELSE handed
      ]_vars

\* the worker holds a video record that was pushed after an audio record which
\* is still in the audio lane
C4_Witness ==
    /\ wpc = "on_video"
    /\ audioBuf # <<>>
    /\ audioBuf[1].ts < wframe.ts

\* C5: put_audio appends the record at the tail of the audio lane; on a full
\* lane exactly the front record is evicted and the others keep their order;
\* no step of put_audio changes the video lane.
C5_PutAudioFifo ==
    [][ /\ PutAudioStep =>
           /\ audioBuf'[Len(audioBuf')] = pitem
           /\ IF Len(audioBuf) >= maxlen
              THEN /\ Len(audioBuf') = maxlen
                   /\ \A j \in 1..(maxlen - 1) : audioBuf'[j] = audioBuf[j + 1]
              ELSE /\ Len(audioBuf') = Len(audioBuf) + 1
                   /\ \A j \in 1..Len(audioBuf) : audioBuf'[j] = audioBuf[j]
        /\ ((pcall = "put_audio" \/ pcall' = "put_audio")
               /\ producerVars' # producerVars) => videoBuf' = videoBuf
      ]_vars

\* a full audio lane of three records took a fourth: the oldest is gone, the
\* other two moved up in order, and the video lane still holds its records
C5_Witness ==
    /\ maxlen = 3 /\ Len(audioBuf) = 3 /\ ppc = "idle"
    /\ audioBuf[1].ts = 2 - MaxLen - 1
    /\ audioBuf[2].ts = 3 - MaxLen - 1
    /\ audioBuf[3].ts = 1
    /\ videoBuf # <<>>

\* the video tasks scheduled so far, by position
VideoTasks == {i \in DOMAIN scheduled : scheduled[i].kind = "video"}

\* C6: any two payloads forwarded to the video callback were forwarded at clock
\* readings at least FrameInterval apart, however many records were handled in
\* between (the clock is read once per handled record and never goes back).
C6_VideoSpacing ==
    \A i \in VideoTasks : \A j \in VideoTasks :
        i < j => scheduled[j].at - scheduled[i].at >= FrameInterval

\* two video payloads were forwarded
C6_Witness ==
    \E i \in VideoTasks : \E j \in VideoTasks : i < j

\* the worker leaves the dispatch of a decoded and resampled audio record
AudioDispatchStep == wpc = "audio_dispatch" /\ wpc' # "audio_dispatch"

\* this step schedules exactly one audio task, with the record's timestamp and
\* channel, behind the tasks scheduled before
AudioScheduled ==
    /\ Len(scheduled') = Len(scheduled) + 1
    /\ \A i \in DOMAIN scheduled : scheduled'[i] = scheduled[i]
    /\ scheduled'[Len(scheduled')].kind = "audio"
    /\ scheduled'[Len(scheduled')].ts = wframe.ts
    /\ scheduled'[Len(scheduled')].ch = wframe.ch
    /\ Cardinality({i \in DOMAIN scheduled' :
            scheduled'[i].kind = "audio" /\ scheduled'[i].ts = wframe.ts}) = 1

\* C7 as stated: every audio record the worker dequeued and decoded is scheduled
\* exactly once with its timestamp and channel.
C7_AudioAlwaysScheduled ==
    [][AudioDispatchStep => AudioScheduled]_vars

\* C7 as amended: every audio record the worker dequeued, decoded and resampled
\* is scheduled exactly once with its timestamp and channel when the event loop
\* is open at the dispatch, whatever the frame interval, the clock and the time
\* of the last video emission.
C7_AudioScheduledOnOpenLoop ==
    [][(AudioDispatchStep /\ ~loopClosed) => AudioScheduled]_vars

\* an audio task was scheduled less than FrameInterval after a video task
C7_Witness ==
    \E i \in VideoTasks : \E j \in DOMAIN scheduled :
        /\ i < j
        /\ scheduled[j].kind = "audio"
        /\ scheduled[j].at - scheduled[i].at < FrameInterval

\* C8: once stop() is called on a started worker, the worker eventually leaves
\* its loop and stop() returns.
C8_StopTerminates ==
    (spc = "del_cond" /\ stopCalls = 1 /\ stopOnStarted)
        ~> (wpc = "exited" /\ stopReturned)

\* C9: after the buffer's shutdown no step() call, in progress or started
\* afterwards, raises an error out of its own statements (it returns "no data").
C9_StepAfterShutdownRaisesNothing ==
    condDeleted => ~(wpc = "except" /\ werr \in {"AttributeError: _cond", "IndexError"})

\* C10 as stated: once stop() has been called no callback is scheduled any more.
C10_NoSchedulingOnceStopCalled ==
    [][stopCalls > 0 => scheduled' = scheduled]_vars

\* C10 as amended: once stop() has returned no callback is scheduled and the
\* worker dequeues no record, also when records are in a lane.
C10_NoSchedulingOnceStopReturned ==
    [][stopReturned => (scheduled' = scheduled /\ wframe' = wframe /\ wframe = NoFrame)]_vars

\* stop() has returned after a callback was scheduled and a record is in a lane
C10_Witness ==
    /\ stopReturned
    /\ scheduled # <<>>
    /\ videoBuf # <<>>

\* C11: put_video and put_audio never surface an error to the producer: in no
\* reachable state has a put call raised (a put made after the buffer's
\* shutdown returns normally and leaves both lanes as they are).
C11_PutNeverRaises ==
    ppc # "raised"

\* C12: stop() is idempotent: once a stop() call has returned, a further
\* stop() call raises no error.
C12_SecondStopReturns ==
    stopReturned => spc # "raised"

\* C13: once the worker's video decoder has been created for the codec of the
\* first video record, no decoder for another codec is ever created: whenever
\* a video decoder is set it is one for the codec first bound.  (The audio
\* decoder is only ever created for OPUS.)
C13_DecoderNeverRebound ==
    /\ videoDecoder # "none" => videoDecoder = videoBound
    /\ audioDecoder \in {"none", "OPUS"}

\* the worker is handling a record or the exception its handling raised
Handling ==
    wpc \in {"on_video", "video_decode", "video_dispatch",
             "on_audio", "audio_decode", "audio_dispatch", "except"}

\* C14: while no stop() was called and the event loop is open the worker never
\* leaves its loop, whatever fails in the handling of a record (creation of
\* the decoder, decode, conversion, resampling); the record whose handling
\* raised is dropped, and the worker comes back to step() for the next record
\* (unless stop() is called or the loop is closed in the meantime).
C14_FailureKeepsWorker ==
    /\ []((stopCalls = 0 /\ ~loopClosed) => wpc # "exited")
    /\ [](wpc = "except" => wframe = NoFrame)
    /\ (Handling /\ stopCalls = 0 /\ ~loopClosed)
          ~> (wpc = "step" \/ stopCalls > 0 \/ loopClosed)

\* the handling of a first audio record failed (the loop is open and nothing
\* was scheduled) and the worker is handling a second record
C14_Witness ==
    /\ stopCalls = 0 /\ ~loopClosed
    /\ Len(handed) = 2 /\ handed[1].kind = "audio"
    /\ scheduled = <<>>
    /\ wpc \in {"on_video", "on_audio"}

\* C15: once the event loop is closed while the worker runs, the worker
\* eventually leaves its loop, whatever records it receives.
C15_ClosedLoopEndsWorker ==
    []((~loopClosed /\ wpc \notin {"created", "exited"})
          => [](loopClosed => <>(wpc = "exited")))

\* the place of the record stamped ts in the history of the records handed over
HandedAt(ts) == CHOOSE k \in DOMAIN handed : handed[k].ts = ts

\* C16: for each media kind the tasks are scheduled in the order in which the
\* worker produced them: a step that schedules adds one task, the one of the
\* record in hand, behind all tasks scheduled before, and of two scheduled
\* tasks of the same kind the earlier one is of the record the worker was
\* handed first.
C16_ScheduledInProductionOrder ==
    /\ [][ scheduled' # scheduled =>
              /\ wpc \in {"video_dispatch", "audio_dispatch"}
              /\ scheduled' = Append(scheduled,
                     Task(IF wpc = "video_dispatch" THEN "video" ELSE "audio",
                          wframe, clock))
              /\ handed[Len(handed)].ts = wframe.ts
       ]_vars
    /\ [](\A i \in DOMAIN scheduled :
            /\ \E k \in DOMAIN handed :
                  handed[k].ts = scheduled[i].ts /\ handed[k].kind = scheduled[i].kind
            /\ \A j \in DOMAIN scheduled :
                  (i < j /\ scheduled[i].kind = scheduled[j].kind)
                     => HandedAt(scheduled[i].ts) < HandedAt(scheduled[j].ts))

\* two audio tasks were scheduled
C16_Witness ==
    \E i \in DOMAIN scheduled : \E j \in DOMAIN scheduled :
        i < j /\ scheduled[i].kind = "audio" /\ scheduled[j].kind = "audio"

\* More non-keyframe video records than the lane holds were put into the empty
\* buffer and nothing else happened: no step(), no stop(), no put_audio (the
\* audio lane is empty), no keyframe (a keyframe put is stored and only ever
\* leaves the lane for another keyframe) and no record put earlier.
ScenarioA ==
    /\ wpc = "created" /\ stopCalls = 0 /\ ppc = "idle"
    /\ audioBuf = <<>>
    /\ pushed > maxlen
    /\ \A i \in DOMAIN videoBuf : videoBuf[i].ft = "P" /\ videoBuf[i].ts >= 1

\* C17 as stated: after N+k non-keyframes were put into an empty lane of
\* capacity N the lane holds the N records put last.
C17_KeepsNewest ==
    ScenarioA =>
        /\ Len(videoBuf) = maxlen
        /\ \A i \in DOMAIN videoBuf : videoBuf[i].ts = pushed - maxlen + i

\* C17 as amended: after N+k non-keyframes were put into an empty lane of
\* capacity N the lane holds the N records put first, in the order put; the k
\* records put last were discarded.
C17_KeepsOldest ==
    ScenarioA =>
        /\ Len(videoBuf) = maxlen
        /\ \A i \in DOMAIN videoBuf : videoBuf[i].ts = i

\* a lane of capacity 2 or more was overflowed by 2 or more non-keyframes
C17_Witness ==
    ScenarioA /\ maxlen >= 2 /\ Len(videoBuf) = maxlen /\ pushed >= maxlen + 2

\* the video handler returns normally in this step (now_ts is the clock it read)
VideoStepEnds == wpc \in {"video_decode", "video_dispatch"} /\ wpc' = "loop"

\* C18: a video step that finds the rate gate open leaves _last_jpeg_ts at the
\* now_ts it read, whether the decode gave no frame, the conversion or the
\* dispatch failed or the payload was forwarded; a step that finds the gate
\* closed leaves _last_jpeg_ts as it was.
C18_GateAdvancesEveryOpenStep ==
    [][ VideoStepEnds =>
          lastJpegTs' = IF GateOpen(clock', lastJpegTs) THEN clock' ELSE lastJpegTs
      ]_vars

\* C19: every change of a lane is made by a thread that holds the lock of the
\* condition, inside its locked section, in every operation including stop():
\* a lane changes only in a step of the producer taken while the producer
\* holds the lock or in a step of the worker taken while the worker holds it.
C19_LanesChangeUnderLock ==
    [][ (videoBuf' # videoBuf \/ audioBuf' # audioBuf) =>
          \/ lock = "producer" /\ ppc' # ppc /\ ppc \notin {"idle", "acquire", "raised"}
          \/ lock = "worker" /\ wpc' # wpc /\ wpc \in {"locked", "pop_video", "pop_audio"}
      ]_vars

\* C20: for each lane the records step() hands to the lane's callback are, in
\* the same relative order, records put into that lane (records are stamped in
\* the order put): the stamps handed over per lane increase strictly (nothing
\* reordered or handed twice), the record handed over is the one popleft() took
\* from the front of its lane,
\* and a lane only ever gains the record of the put in progress on that lane
\* (nothing invented); also when a keyframe evicted a record from the middle.
C20_HandedInPushOrder ==
    /\ [](\A i \in DOMAIN handed : \A j \in DOMAIN handed :
            (i < j /\ handed[i].kind = handed[j].kind) => handed[i].ts < handed[j].ts)
    /\ [][ /\ handed' # handed =>
                 /\ wpc \in {"call_video", "call_audio"}
                 /\ wframe' = wframe
                 /\ handed' = Append(handed,
                        Handed(IF wpc = "call_video" THEN "video" ELSE "audio", wframe))
           /\ (wframe' # wframe /\ wframe' # NoFrame) =>
                 \/ /\ wpc' = "release_video"
                    /\ videoBuf # <<>>
                    /\ wframe' = Head(videoBuf)
                 \/ /\ wpc' = "release_audio"
                    /\ audioBuf # <<>>
                    /\ wframe' = Head(audioBuf)
       ]_vars
    /\ [][ /\ Records(videoBuf') \subseteq
                 Records(videoBuf) \cup (IF pcall = "put_video" THEN {pitem} ELSE {})
           /\ Records(audioBuf') \subseteq
                 Records(audioBuf) \cup (IF pcall = "put_audio" THEN {pitem} ELSE {})
       ]_vars

\* a full lane of a keyframe and two non-keyframes took a keyframe, which
\* evicted the second record; step() handed over the first, the third and the
\* new record, in this order
C20_Witness ==
    /\ maxlen = 3
    /\ handed = << Handed("video", [ts |-> 1 - MaxLen - 1]),
                   Handed("video", [ts |-> 3 - MaxLen - 1]),
                   Handed("video", [ts |-> 1]) >>

\* the worker is inside a frame handler or inside self._cond.wait()
DecodingOrWaiting ==
    wpc \in {"on_video", "video_decode", "video_dispatch",
             "on_audio", "audio_decode", "audio_dispatch", "waiting"}

\* C21: the worker does not hold the lock of the condition while it runs a
\* frame handler or waits: step() has released it before on_frame is called.
\* So a put that is at the acquisition of the lock while the worker decodes or
\* waits finds the lock free: it enters its locked section in its next step
\* and goes through it without waiting for the worker.
C21_HandlerRunsUnlocked ==
    DecodingOrWaiting =>
        /\ lock # "worker"
        /\ ppc = "acquire" => lock = "free"

\* a put is inside its locked section while the worker is decoding a video record
C21_Witness ==
    /\ wpc = "on_video"
    /\ ppc = "locked"
    /\ lock = "producer"

\* C22: once stop() has set _running = False on a started worker, step() hands
\* at most one more record to a handler (the one of the step in progress); a
\* step() that starts after the buffer's shutdown dequeues nothing; and once
\* stop() has returned the worker has left its loop and holds no record.
C22_AtMostOneRecordAfterStop ==
    /\ []((stopCalls = 1 /\ stopOnStarted) => Len(handed) - handedAtStop <= 1)
    /\ [][(condDeleted /\ wpc = "step") => handed' = handed]_vars
    /\ [](stopReturned => (wpc = "exited" /\ wframe = NoFrame))
====
